---- MODULE Spec2Model ----
(***************************************************************************)
(* Model of cmd/dice: setupOTelSDK (otel.go) with its shutdown and         *)
(* handleErr closures, and run/main (main.go).                             *)
(*                                                                         *)
(* Three specifications share the actions of setupOTelSDK and shutdown:    *)
(*   Spec      the program: main -> run -> setupOTelSDK -> serve -> exit   *)
(*   SpecSeq   a caller that sets up and then calls the returned shutdown  *)
(*             function several times in sequence                          *)
(*   SpecConc  a caller that sets up and then lets two goroutines call     *)
(*             the returned shutdown function concurrently                 *)
(***************************************************************************)
EXTENDS Integers, Sequences, FiniteSets

\* ------------------------------------------------------------------ bounds
\* number of sequential shutdown calls the caller of SpecSeq makes
MaxCalls == 3

\* ------------------------------------------------------------- signals
\* construction order of the providers in setupOTelSDK
SignalOrder == <<"tracer", "meter", "logger">>
Signals == 1..Len(SignalOrder)

\* goroutines that can be inside the shutdown closure
Callers == {"main", "g1", "g2"}
ConcCallers == {"g1", "g2"}

\* ------------------------------------------------------------- errors
\* An error value: nil, or a non-nil value wrapping a list of leaf errors
\* (errors.Is finds exactly the leaves).
Nil == [nil |-> TRUE, errs |-> <<>>]
Leaf(e) == [nil |-> FALSE, errs |-> <<e>>]

CErr(s) == <<"construct", s>>
TErr(s) == <<"teardown", s>>
CtxErr == <<"context", 0>>
ListenErr == <<"listen", 0>>
ErrServerClosed == <<"closed", 0>>
SrvShutdownErr == <<"srvshutdown", 0>>

\* errors.Join(a, b): nil values are discarded, nil when all are nil
JoinKeepLast(a, b) == IF b.nil THEN a ELSE b
Join(a, b) ==
    IF a.nil /\ b.nil THEN Nil
    ELSE [nil |-> FALSE, errs |-> a.errs \o b.errs]

\* ------------------------------------------------------------- contexts
\* "background": context.Background(); "signal": the signal.NotifyContext
\* context of run; "canceled": a context canceled before the call;
\* "deadline": a context carrying a deadline.
HarnessCtxs == {"background", "canceled", "deadline"}
HasDeadline(c) == c = "deadline"

VARIABLES
    pc,            \* position of the main goroutine
    sig,           \* signal setupOTelSDK constructs next
    setupErr,      \* named result err of setupOTelSDK
    inErr,         \* argument of handleErr
    shutdownFuncs, \* the captured slice of teardown functions
    globalProv,    \* process-wide provider per signal
    propagator,    \* process-wide text map propagator set
    sd,            \* per goroutine: frame of the shutdown closure
    callNo,        \* number of shutdown calls entered so far
    callCtx,       \* context passed to each shutdown call
    log,           \* teardown invocations: start and return events
    regOrder,      \* every teardown ever appended, in order
    attempted,     \* signals whose constructor was called
    failedSig,     \* signal whose constructor failed, 0 if none
    drained,       \* some shutdown call has cleared the slice
    ctxCanceled,   \* the context passed to setupOTelSDK is done
    notifying,     \* that context can still be canceled
    interrupted,   \* os.Interrupt was delivered to the NotifyContext
    runErr,        \* named result err of run
    deferOtel,     \* the deferred otelShutdown is registered
    srvState,      \* goroutine running srv.ListenAndServe
    srvErr,        \* the buffered channel srvErr
    occurred,      \* leaf errors produced so far
    mainExit,      \* how main ended
    harnessCalls   \* sequential calls made by the caller of SpecSeq

vars == <<pc, sig, setupErr, inErr, shutdownFuncs, globalProv, propagator,
          sd, callNo, callCtx, log, regOrder, attempted, failedSig, drained,
          ctxCanceled, notifying, interrupted, runErr, deferOtel, srvState,
          srvErr, occurred, mainExit, harnessCalls>>

setupVars == <<sig, setupErr, inErr, globalProv, propagator, regOrder,
               attempted, failedSig>>
runVars == <<runErr, deferOtel, srvState, srvErr, mainExit, interrupted>>
ctxVars == <<ctxCanceled, notifying>>

IdleFrame == [pc |-> "idle", rng |-> <<>>, i |-> 0, err |-> Nil,
              ctx |-> "none", call |-> 0, ret |-> Nil]

\* ------------------------------------------------------------- Init
InitCommon ==
    /\ sig = 1
    /\ setupErr = Nil
    /\ inErr = Nil
    /\ shutdownFuncs = <<>>
    /\ globalProv = [s \in Signals |-> "noop"]
    /\ propagator = FALSE
    /\ sd = [p \in Callers |-> IdleFrame]
    /\ callNo = 0
    /\ callCtx = <<>>
    /\ log = <<>>
    /\ regOrder = <<>>
    /\ attempted = {}
    /\ failedSig = 0
    /\ drained = FALSE
    /\ interrupted = FALSE
    /\ runErr = Nil
    /\ deferOtel = FALSE
    /\ srvState = "none"
    /\ srvErr = <<>>
    /\ occurred = {}
    /\ mainExit = "running"
    /\ harnessCalls = 0

\* the process: main has built the logger and is about to call run
Init ==
    /\ InitCommon
    /\ pc = "run_start"
    /\ ctxCanceled = FALSE
    /\ notifying = FALSE

\* a caller of setupOTelSDK passing a context it may cancel at any time
InitHarness ==
    /\ InitCommon
    /\ pc = "setup_prop"
    /\ ctxCanceled \in BOOLEAN
    /\ notifying = TRUE

\* ------------------------------------------------------------- shutdown
\* the context's Done channel may be closed while a teardown runs
CtxMayBeDone(c) ==
    \/ c = "canceled"
    \/ c = "deadline"
    \/ c = "signal" /\ ctxCanceled

\* what provider.Shutdown(ctx) of signal s can return
TeardownResults(s, c) ==
    {Nil, Leaf(TErr(s))} \cup (IF CtxMayBeDone(c) THEN {Leaf(CtxErr)} ELSE {})

\* entry of the closure: var err error, and the range expression
\* shutdownFuncs is evaluated once
ShutdownEnter(p, c) ==
    /\ sd[p].pc = "idle"
    /\ callNo' = callNo + 1
    /\ callCtx' = Append(callCtx, c)
    /\ sd' = [sd EXCEPT ![p] = [pc |-> "loop", rng |-> shutdownFuncs, i |-> 1,
                                err |-> Nil, ctx |-> c, call |-> callNo + 1,
                                ret |-> Nil]]

\* loop body, first half: fn(ctx) is called
ShutdownInvokeReversed(p) ==
    /\ mainExit = "running"
    /\ sd[p].pc = "loop"
    /\ sd[p].i <= Len(sd[p].rng)
    /\ log' = Append(log, [ev |-> "start",
                           fn |-> sd[p].rng[Len(sd[p].rng) - sd[p].i + 1],
                           call |-> sd[p].call, res |-> Nil])
    /\ sd' = [sd EXCEPT ![p].pc = "infn"]
    /\ UNCHANGED <<pc, setupVars, runVars, ctxVars, shutdownFuncs, callNo,
                   callCtx, drained, occurred, harnessCalls>>

ShutdownInvoke(p) ==
    /\ mainExit = "running"
    /\ sd[p].pc = "loop"
    /\ sd[p].i <= Len(sd[p].rng)
    /\ log' = Append(log, [ev |-> "start", fn |-> sd[p].rng[sd[p].i],
                           call |-> sd[p].call, res |-> Nil])
    /\ sd' = [sd EXCEPT ![p].pc = "infn"]
    /\ UNCHANGED <<pc, setupVars, runVars, ctxVars, shutdownFuncs, callNo,
                   callCtx, drained, occurred, harnessCalls>>

\* loop body, second half: fn(ctx) returns r; err = errors.Join(err, r)
ShutdownFnReturnBreak(p, r) ==
    /\ mainExit = "running"
    /\ sd[p].pc = "infn"
    /\ r \in TeardownResults(sd[p].rng[sd[p].i], sd[p].ctx)
    /\ log' = Append(log, [ev |-> "ret", fn |-> sd[p].rng[sd[p].i],
                           call |-> sd[p].call, res |-> r])
    /\ sd' = [sd EXCEPT ![p].pc = "loop",
                        ![p].err = Join(sd[p].err, r),
                        ![p].i = IF r.nil THEN sd[p].i + 1
                                 ELSE Len(sd[p].rng) + 1]
    /\ occurred' = occurred \cup {r.errs[k] : k \in 1..Len(r.errs)}
    /\ UNCHANGED <<pc, setupVars, runVars, ctxVars, shutdownFuncs, callNo,
                   callCtx, drained, harnessCalls>>

ShutdownFnReturn(p, r) ==
    /\ mainExit = "running"
    /\ sd[p].pc = "infn"
    /\ r \in TeardownResults(sd[p].rng[sd[p].i], sd[p].ctx)
    /\ log' = Append(log, [ev |-> "ret", fn |-> sd[p].rng[sd[p].i],
                           call |-> sd[p].call, res |-> r])
    /\ sd' = [sd EXCEPT ![p].pc = "loop",
                        ![p].err = Join(sd[p].err, r),
                        ![p].i = sd[p].i + 1]
    /\ occurred' = occurred \cup {r.errs[k] : k \in 1..Len(r.errs)}
    /\ UNCHANGED <<pc, setupVars, runVars, ctxVars, shutdownFuncs, callNo,
                   callCtx, drained, harnessCalls>>

\* after the loop: shutdownFuncs = nil; return err
ShutdownClearKeep(p) ==
    /\ mainExit = "running"
    /\ sd[p].pc = "loop"
    /\ sd[p].i > Len(sd[p].rng)
    /\ drained' = TRUE
    /\ sd' = [sd EXCEPT ![p].pc = "done", ![p].ret = sd[p].err]
    /\ UNCHANGED <<pc, setupVars, runVars, ctxVars, shutdownFuncs, callNo,
                   callCtx, log, occurred, harnessCalls>>

ShutdownClear(p) ==
    /\ mainExit = "running"
    /\ sd[p].pc = "loop"
    /\ sd[p].i > Len(sd[p].rng)
    /\ shutdownFuncs' = <<>>
    /\ drained' = TRUE
    /\ sd' = [sd EXCEPT ![p].pc = "done", ![p].ret = sd[p].err]
    /\ UNCHANGED <<pc, setupVars, runVars, ctxVars, callNo, callCtx, log,
                   occurred, harnessCalls>>

\* ------------------------------------------------------------- setupOTelSDK
\* prop := newPropagator(); otel.SetTextMapPropagator(prop)
SetupPropagator ==
    /\ pc = "setup_prop"
    /\ propagator' = TRUE
    /\ pc' = "setup_construct"
    /\ UNCHANGED <<sig, setupErr, inErr, globalProv, regOrder, attempted,
                   failedSig, shutdownFuncs, sd, callNo, callCtx, log,
                   drained, runVars, ctxVars, occurred, harnessCalls>>

\* newXProvider succeeds: append its Shutdown, publish it globally
ConstructOk ==
    /\ pc = "setup_construct"
    /\ attempted' = attempted \cup {sig}
    /\ setupErr' = Nil
    /\ shutdownFuncs' = Append(shutdownFuncs, sig)
    /\ regOrder' = Append(regOrder, sig)
    /\ globalProv' = [globalProv EXCEPT ![sig] = "sdk"]
    /\ IF sig < Len(SignalOrder)
         THEN sig' = sig + 1 /\ pc' = "setup_construct"
         ELSE sig' = sig /\ pc' = "setup_ret"
    /\ UNCHANGED <<inErr, propagator, failedSig, sd, callNo, callCtx, log,
                   drained, runVars, ctxVars, occurred, harnessCalls>>

\* newXProvider fails: err != nil, handleErr(err) is called
ConstructFailPublish ==
    /\ pc = "setup_construct"
    /\ attempted' = attempted \cup {sig}
    /\ failedSig' = sig
    /\ setupErr' = Leaf(CErr(sig))
    /\ inErr' = Leaf(CErr(sig))
    /\ globalProv' = [globalProv EXCEPT ![sig] = "sdk"]
    /\ occurred' = occurred \cup {CErr(sig)}
    /\ pc' = "handleErr"
    /\ UNCHANGED <<sig, propagator, regOrder, shutdownFuncs, sd,
                   callNo, callCtx, log, drained, runVars, ctxVars,
                   harnessCalls>>

ConstructFail ==
    /\ pc = "setup_construct"
    /\ attempted' = attempted \cup {sig}
    /\ failedSig' = sig
    /\ setupErr' = Leaf(CErr(sig))
    /\ inErr' = Leaf(CErr(sig))
    /\ occurred' = occurred \cup {CErr(sig)}
    /\ pc' = "handleErr"
    /\ UNCHANGED <<sig, globalProv, propagator, regOrder, shutdownFuncs, sd,
                   callNo, callCtx, log, drained, runVars, ctxVars,
                   harnessCalls>>

\* handleErr: shutdown(ctx) is called with the context of setupOTelSDK
HandleErrCallSkip ==
    /\ pc = "handleErr"
    /\ setupErr' = inErr
    /\ pc' = "setup_ret"
    /\ UNCHANGED <<sig, inErr, globalProv, propagator, regOrder, attempted,
                   failedSig, shutdownFuncs, sd, callNo, callCtx, log, drained,
                   runVars, ctxVars, occurred, harnessCalls>>

HandleErrCall ==
    /\ pc = "handleErr"
    /\ ShutdownEnter("main", "signal")
    /\ pc' = "handleErr_wait"
    /\ UNCHANGED <<setupVars, shutdownFuncs, log, drained, runVars, ctxVars,
                   occurred, harnessCalls>>

\* handleErr: err = errors.Join(inErr, shutdown(ctx)); then return
HandleErrJoin ==
    /\ pc = "handleErr_wait"
    /\ sd["main"].pc = "done"
    /\ setupErr' = Join(inErr, sd["main"].ret)
    /\ sd' = [sd EXCEPT !["main"] = IdleFrame]
    /\ pc' = "setup_ret"
    /\ UNCHANGED <<sig, inErr, globalProv, propagator, regOrder, attempted,
                   failedSig, shutdownFuncs, callNo, callCtx, log, drained,
                   runVars, ctxVars, occurred, harnessCalls>>

\* the context given to setupOTelSDK is canceled: in run by os.Interrupt
Interrupt ==
    /\ notifying
    /\ ~ctxCanceled
    /\ mainExit = "running"
    /\ ctxCanceled' = TRUE
    /\ interrupted' = TRUE
    /\ UNCHANGED <<pc, setupVars, shutdownFuncs, sd, callNo, callCtx, log,
                   drained, notifying, runErr, deferOtel, srvState, srvErr,
                   mainExit, occurred, harnessCalls>>

\* ------------------------------------------------------------- run, main
\* ctx, stop := signal.NotifyContext(...); defer stop(); setupOTelSDK(ctx)
RunNotifyContext ==
    /\ pc = "run_start"
    /\ notifying' = TRUE
    /\ pc' = "setup_prop"
    /\ UNCHANGED <<setupVars, shutdownFuncs, sd, callNo, callCtx, log, drained,
                   ctxCanceled, runVars, occurred, harnessCalls>>

\* otelShutdown, err := setupOTelSDK(ctx); if err != nil { return };
\* defer otelShutdown; go srv.ListenAndServe()
RunAfterSetupNoDefer ==
    /\ pc = "setup_ret"
    /\ runErr' = setupErr
    /\ IF ~setupErr.nil
         THEN pc' = "run_defers" /\ UNCHANGED <<deferOtel, srvState>>
         ELSE pc' = "run_select" /\ deferOtel' = FALSE
              /\ srvState' = "listening"
    /\ UNCHANGED <<setupVars, shutdownFuncs, sd, callNo, callCtx, log, drained,
                   ctxVars, srvErr, mainExit, interrupted, occurred,
                   harnessCalls>>

RunAfterSetup ==
    /\ pc = "setup_ret"
    /\ runErr' = setupErr
    /\ IF ~setupErr.nil
         THEN pc' = "run_defers" /\ UNCHANGED <<deferOtel, srvState>>
         ELSE pc' = "run_select" /\ deferOtel' = TRUE
              /\ srvState' = "listening"
    /\ UNCHANGED <<setupVars, shutdownFuncs, sd, callNo, callCtx, log, drained,
                   ctxVars, srvErr, mainExit, interrupted, occurred,
                   harnessCalls>>

\* srv.ListenAndServe() fails on its own; srvErr <- err
ServeFail ==
    /\ srvState = "listening"
    /\ mainExit = "running"
    /\ srvErr' = Append(srvErr, Leaf(ListenErr))
    /\ srvState' = "returned"
    /\ UNCHANGED <<pc, setupVars, shutdownFuncs, sd, callNo, callCtx, log,
                   drained, ctxVars, runErr, deferOtel, mainExit, interrupted,
                   occurred, harnessCalls>>

\* srv.ListenAndServe() returns ErrServerClosed after srv.Shutdown
ServeClosed ==
    /\ srvState = "closing"
    /\ mainExit = "running"
    /\ srvErr' = Append(srvErr, Leaf(ErrServerClosed))
    /\ srvState' = "returned"
    /\ UNCHANGED <<pc, setupVars, shutdownFuncs, sd, callNo, callCtx, log,
                   drained, ctxVars, runErr, deferOtel, mainExit, interrupted,
                   occurred, harnessCalls>>

\* select: case err = <-srvErr: return
SelectSrvErr ==
    /\ pc = "run_select"
    /\ srvErr # <<>>
    /\ runErr' = Head(srvErr)
    /\ srvErr' = Tail(srvErr)
    /\ occurred' = occurred \cup {Head(srvErr).errs[k] : k \in 1..Len(Head(srvErr).errs)}
    /\ pc' = "run_defers"
    /\ UNCHANGED <<setupVars, shutdownFuncs, sd, callNo, callCtx, log, drained,
                   ctxVars, deferOtel, srvState, mainExit, interrupted,
                   harnessCalls>>

\* select: case <-ctx.Done(): stop()
SelectCtxDone ==
    /\ pc = "run_select"
    /\ ctxCanceled
    /\ notifying' = FALSE
    /\ pc' = "run_srvshutdown"
    /\ UNCHANGED <<setupVars, shutdownFuncs, sd, callNo, callCtx, log, drained,
                   ctxCanceled, runVars, occurred, harnessCalls>>

\* err = srv.Shutdown(context.Background()); return
SrvShutdown(r) ==
    /\ pc = "run_srvshutdown"
    /\ r \in {Nil, Leaf(SrvShutdownErr)}
    /\ runErr' = r
    /\ srvState' = IF srvState = "listening" THEN "closing" ELSE srvState
    /\ occurred' = occurred \cup {r.errs[k] : k \in 1..Len(r.errs)}
    /\ pc' = "run_defers"
    /\ UNCHANGED <<setupVars, shutdownFuncs, sd, callNo, callCtx, log, drained,
                   ctxVars, deferOtel, srvErr, mainExit, interrupted,
                   harnessCalls>>

\* deferred func: otelShutdown(context.Background()) is called
RunDeferOtelCall ==
    /\ pc = "run_defers"
    /\ deferOtel
    /\ ShutdownEnter("main", "background")
    /\ pc' = "run_defer_wait"
    /\ UNCHANGED <<setupVars, shutdownFuncs, log, drained, runVars, ctxVars,
                   occurred, harnessCalls>>

\* deferred func: err = errors.Join(err, otelShutdown(...))
RunDeferOtelJoinOverwrite ==
    /\ pc = "run_defer_wait"
    /\ sd["main"].pc = "done"
    /\ runErr' = sd["main"].ret
    /\ deferOtel' = FALSE
    /\ sd' = [sd EXCEPT !["main"] = IdleFrame]
    /\ pc' = "run_defers"
    /\ UNCHANGED <<setupVars, shutdownFuncs, callNo, callCtx, log, drained,
                   ctxVars, srvState, srvErr, mainExit, interrupted, occurred,
                   harnessCalls>>

RunDeferOtelJoin ==
    /\ pc = "run_defer_wait"
    /\ sd["main"].pc = "done"
    /\ runErr' = Join(runErr, sd["main"].ret)
    /\ deferOtel' = FALSE
    /\ sd' = [sd EXCEPT !["main"] = IdleFrame]
    /\ pc' = "run_defers"
    /\ UNCHANGED <<setupVars, shutdownFuncs, callNo, callCtx, log, drained,
                   ctxVars, srvState, srvErr, mainExit, interrupted, occurred,
                   harnessCalls>>

\* deferred stop(): the NotifyContext is canceled and unregistered; run returns
RunDeferStop ==
    /\ pc = "run_defers"
    /\ ~deferOtel
    /\ notifying' = FALSE
    /\ ctxCanceled' = TRUE
    /\ pc' = "run_returned"
    /\ UNCHANGED <<setupVars, shutdownFuncs, sd, callNo, callCtx, log, drained,
                   runVars, occurred, harnessCalls>>

\* main: if err := run(); err != nil { log.Fatalln(err) }
MainExit ==
    /\ pc = "run_returned"
    /\ mainExit' = IF runErr.nil THEN "ok" ELSE "fatal"
    /\ pc' = "exited"
    /\ UNCHANGED <<setupVars, shutdownFuncs, sd, callNo, callCtx, log, drained,
                   ctxVars, runErr, deferOtel, srvState, srvErr, interrupted,
                   occurred, harnessCalls>>

\* ------------------------------------------------------------- callers
\* a caller invokes the returned shutdown function once more
HarnessCall(c) ==
    /\ pc = "setup_ret"
    /\ harnessCalls < MaxCalls
    /\ ShutdownEnter("main", c)
    /\ harnessCalls' = harnessCalls + 1
    /\ pc' = "harness_wait"
    /\ UNCHANGED <<setupVars, shutdownFuncs, log, drained, runVars, ctxVars,
                   occurred>>

\* the call has returned; its result is dropped
HarnessReturn ==
    /\ pc = "harness_wait"
    /\ sd["main"].pc = "done"
    /\ sd' = [sd EXCEPT !["main"] = IdleFrame]
    /\ pc' = "setup_ret"
    /\ UNCHANGED <<setupVars, shutdownFuncs, callNo, callCtx, log, drained,
                   runVars, ctxVars, occurred, harnessCalls>>

\* goroutine g calls the returned shutdown function, once.  No lock guards
\* shutdownFuncs: the read of the range expression either precedes or follows
\* another goroutine's shutdownFuncs = nil.
ConcCall(g) ==
    /\ pc = "setup_ret"
    /\ mainExit = "running"
    /\ sd[g].call = 0
    /\ ShutdownEnter(g, "background")
    /\ UNCHANGED <<pc, setupVars, shutdownFuncs, log, drained, runVars,
                   ctxVars, occurred, harnessCalls>>

\* the unsynchronised read of the slice header by g overlaps the write
\* shutdownFuncs = nil of another goroutine and sees a nil pointer with the
\* old length: the range loop faults and the process dies
ConcTornRead(g) ==
    /\ pc = "setup_ret"
    /\ mainExit = "running"
    /\ sd[g].call = 0
    /\ shutdownFuncs # <<>>
    /\ \E h \in ConcCallers \ {g} :
           sd[h].pc = "loop" /\ sd[h].i > Len(sd[h].rng)
    /\ mainExit' = "panic"
    /\ UNCHANGED <<pc, setupVars, shutdownFuncs, sd, callNo, callCtx, log,
                   drained, ctxVars, runErr, deferOtel, srvState, srvErr,
                   interrupted, occurred, harnessCalls>>

\* ------------------------------------------------------------- Next
AllResults == {Nil, Leaf(CtxErr)} \cup {Leaf(TErr(s)) : s \in Signals}

Next ==
    \/ RunNotifyContext
    \/ SetupPropagator
    \/ ConstructOk
    \/ ConstructFail
    \/ HandleErrCall
    \/ HandleErrJoin
    \/ Interrupt
    \/ \E p \in Callers : ShutdownInvoke(p)
    \/ \E p \in Callers : \E r \in AllResults : ShutdownFnReturn(p, r)
    \/ \E p \in Callers : ShutdownClear(p)
    \/ RunAfterSetup
    \/ ServeFail
    \/ ServeClosed
    \/ SelectSrvErr
    \/ SelectCtxDone
    \/ \E r \in AllResults \cup {Leaf(SrvShutdownErr)} : SrvShutdown(r)
    \/ RunDeferOtelCall
    \/ RunDeferOtelJoin
    \/ RunDeferStop
    \/ MainExit

Spec == Init /\ [][Next]_vars

NextSeq ==
    \/ SetupPropagator
    \/ ConstructOk
    \/ ConstructFail
    \/ HandleErrCall
    \/ HandleErrJoin
    \/ Interrupt
    \/ \E p \in Callers : ShutdownInvoke(p)
    \/ \E p \in Callers : \E r \in AllResults : ShutdownFnReturn(p, r)
    \/ \E p \in Callers : ShutdownClear(p)
    \/ \E c \in HarnessCtxs : HarnessCall(c)
    \/ HarnessReturn

SpecSeq == InitHarness /\ [][NextSeq]_vars

NextConc ==
    \/ SetupPropagator
    \/ ConstructOk
    \/ ConstructFail
    \/ HandleErrCall
    \/ HandleErrJoin
    \/ Interrupt
    \/ \E p \in Callers : ShutdownInvoke(p)
    \/ \E p \in Callers : \E r \in AllResults : ShutdownFnReturn(p, r)
    \/ \E p \in Callers : ShutdownClear(p)
    \/ \E g \in ConcCallers : ConcCall(g)
    \/ \E g \in ConcCallers : ConcTornRead(g)

SpecConc == InitHarness /\ [][NextConc]_vars

\* ------------------------------------------------------------- observations
IsPrefix(a, b) == Len(a) <= Len(b) /\ a = SubSeq(b, 1, Len(a))

\* events of shutdown call n
CallEvents(n) == SelectSeq(log, LAMBDA e : e.call = n)

\* teardown functions started by shutdown call n, in order
Starts(n) ==
    LET s == SelectSeq(log, LAMBDA e : e.call = n /\ e.ev = "start")
    IN  [k \in 1..Len(s) |-> s[k].fn]

\* errors returned by the teardown functions in shutdown call n, in order
RetErrs(n) ==
    LET s == SelectSeq(log, LAMBDA e : e.call = n /\ e.ev = "ret" /\ ~e.res.nil)
    IN  [k \in 1..Len(s) |-> s[k].res.errs[1]]

\* how often the teardown of signal s was invoked, over all calls
Count(s) == Len(SelectSeq(log, LAMBDA e : e.ev = "start" /\ e.fn = s))

Range(q) == {q[k] : k \in 1..Len(q)}

RunReturned == pc \in {"run_returned", "exited"}
SetupReturned == pc \notin {"run_start", "setup_prop", "setup_construct",
                            "handleErr", "handleErr_wait"}

TypeOK ==
    /\ sig \in Signals
    /\ failedSig \in {0} \cup Signals
    /\ Range(shutdownFuncs) \subseteq Signals
    /\ callNo = Len(callCtx)
    /\ harnessCalls \in 0..MaxCalls

\* every event of call n is a start followed by the return of the same function
WellNested(n) ==
    LET ev == CallEvents(n)
    IN  \A k \in 1..Len(ev) :
            IF k % 2 = 1
              THEN ev[k].ev = "start"
              ELSE ev[k].ev = "ret" /\ ev[k].fn = ev[k - 1].fn

\* ------------------------------------------------------------- claims
\* C1: one call of shutdown invokes the registered teardown functions in the
\* order they were appended (tracer, meter, logger), and teardown i starts
\* only after teardown i-1 has returned.
C1_ForwardOrder ==
    \A n \in 1..callNo :
        /\ IsPrefix(Starts(n), regOrder)
        /\ WellNested(n)

C1_Witness ==
    \E p \in Callers :
        /\ sd[p].pc = "done"
        /\ Starts(sd[p].call) = <<1, 2, 3>>
        /\ Len(CallEvents(sd[p].call)) = 6

\* C2: a call of shutdown over the N registered teardown functions invokes
\* every one of them, whichever of them returned an error and also when the
\* context passed was already canceled.
C2_NoShortCircuit ==
    \A p \in Callers :
        (sd[p].pc = "done" /\ sd[p].call = 1) => Starts(1) = regOrder

C2_Witness ==
    /\ sd["main"].pc = "done"
    /\ sd["main"].call = 1
    /\ sd["main"].ctx = "canceled"
    /\ Starts(1) = <<1, 2, 3>>
    /\ RetErrs(1) = <<TErr(1), CtxErr>>

\* C3: the value shutdown returns holds exactly the errors returned by the
\* teardown functions of that call, and is nil when none of them failed.
C3_Aggregation ==
    \A p \in Callers :
        sd[p].pc = "done" =>
            /\ sd[p].ret.errs = RetErrs(sd[p].call)
            /\ sd[p].ret.nil <=> RetErrs(sd[p].call) = <<>>

C3_Witness ==
    \E p \in Callers :
        /\ sd[p].pc = "done"
        /\ Starts(sd[p].call) = <<1, 2, 3>>
        /\ RetErrs(sd[p].call) = <<TErr(1), TErr(3)>>

\* C4: once a shutdown call has cleared the slice it stays empty, and every
\* later sequential call invokes no teardown function and returns nil,
\* whatever the first call returned.
C4_IdempotentDrain ==
    /\ drained => shutdownFuncs = <<>>
    /\ \A p \in Callers :
           (sd[p].pc = "done" /\ sd[p].call > 1) =>
               /\ Starts(sd[p].call) = <<>>
               /\ sd[p].ret.nil

C4_Witness ==
    /\ sd["main"].pc = "done"
    /\ sd["main"].call = 2
    /\ Starts(1) = <<1, 2, 3>>
    /\ RetErrs(1) # <<>>

\* C5: when the construction of signal N fails, setupOTelSDK returns only
\* after the teardown of each of the providers 1..N-1 was invoked, and its
\* error holds the construction error of N followed by every error those
\* teardowns returned.
C5_PartialRollback ==
    (failedSig # 0 /\ SetupReturned) =>
        /\ regOrder = [k \in 1..(failedSig - 1) |-> k]
        /\ Starts(1) = regOrder
        /\ Len(CallEvents(1)) = 2 * Len(regOrder)
        /\ ~setupErr.nil
        /\ setupErr.errs = <<CErr(failedSig)>> \o RetErrs(1)

C5_Witness ==
    /\ failedSig = 3
    /\ SetupReturned
    /\ RetErrs(1) = <<TErr(1), TErr(2)>>

\* C6: when run returns, the teardown of every provider that was constructed
\* has been invoked exactly once, and no other teardown was invoked.
C6_ExactlyOnce ==
    RunReturned =>
        \A s \in Signals :
            Count(s) = IF s \in Range(regOrder) THEN 1 ELSE 0

C6_Witness ==
    /\ RunReturned
    /\ failedSig = 0
    /\ interrupted
    /\ Count(1) = 1 /\ Count(2) = 1 /\ Count(3) = 1

\* C7: with two goroutines calling shutdown concurrently, no registered
\* teardown function is executed more than once, and once both calls have
\* returned every registered teardown function has been executed.
C7_ConcurrentAtMostOnce ==
    /\ \A s \in Signals : Count(s) <= 1
    /\ (\A g \in ConcCallers : sd[g].pc = "done") =>
           \A s \in Range(regOrder) : Count(s) = 1

\* C8: after a successful setup and an interrupt, run has called shutdown
\* exactly once when it returns, with a context that carries a deadline.
C8_InterruptShutdownDeadline ==
    (RunReturned /\ failedSig = 0 /\ interrupted) =>
        /\ callNo = 1
        /\ HasDeadline(callCtx[1])

\* C9: the error run returns holds exactly the errors that occurred (setup,
\* received ListenAndServe error, srv.Shutdown error, teardown errors); it is
\* nil only when none occurred, and main exits fatally exactly when it is
\* not nil.
C9_ErrorPropagation ==
    /\ RunReturned =>
           /\ Range(runErr.errs) = occurred
           /\ runErr.nil <=> occurred = {}
    /\ pc = "exited" => (mainExit = "fatal" <=> ~runErr.nil)
    /\ mainExit # "running" => pc = "exited"

C9_Witness ==
    /\ pc = "exited"
    /\ mainExit = "fatal"
    /\ failedSig = 0
    /\ SrvShutdownErr \in occurred
    /\ TErr(2) \in occurred

\* C10: when the construction of signal N fails, nothing is appended or
\* published for N, no later signal is constructed, appended or published,
\* and the providers published for the signals before N stay published.
C10_FrameOnFailure ==
    failedSig # 0 =>
        /\ failedSig \notin Range(regOrder)
        /\ \A m \in Signals :
               m > failedSig => m \notin attempted /\ m \notin Range(regOrder)
        /\ globalProv = [s \in Signals |->
                            IF s < failedSig THEN "sdk" ELSE "noop"]

C10_Witness ==
    /\ failedSig = 2
    /\ pc = "exited"
    /\ globalProv[1] = "sdk"

====
